---- MODULE Spec2Model ----
(***************************************************************************)
(* Model of types/src/namespaced_data.rs: the NamespacedDataId identifier, *)
(* its 39 byte encoding, its conversions to and from a content identifier  *)
(* (CidGeneric), the NamespacedData envelope, its wire conversions and its *)
(* validation against a DataAvailabilityHeader.                            *)
(*                                                                         *)
(* Bytes are naturals 0..255, byte buffers are sequences of bytes.         *)
(* A Result is a record [ok, val] or [ok, err]; an Option is a record      *)
(* [some] or [some, val].  Every function that calls into a collaborator   *)
(* also returns the sequence of calls it made, so that "never invoked"     *)
(* and "only after" are statements about that sequence.                    *)
(***************************************************************************)
EXTENDS Integers, Sequences, FiniteSets, TLC

VARIABLES val, src, last

vars == <<val, src, last>>

----------------------------------------------------------------------------
(* Bounds of the explored inputs *)

MaxHeight == 2
MaxRowIndex == 2
MaxShares == 2
MaxRows == 2
MaxNsId == 2

----------------------------------------------------------------------------
(* Constants of the program *)

NS_SIZE == 29
ROW_ID_SIZE == 10
NAMESPACED_DATA_ID_MULTIHASH_CODE == 30753
NAMESPACED_DATA_ID_CODEC == 30752

----------------------------------------------------------------------------
(* Result and Option *)

Ok(v) == [ok |-> TRUE, val |-> v]
Err(kind, args) ==
    [ok |-> FALSE, err |-> [kind |-> kind, args |-> args, inner |-> ""]]

(* An error converted into a variant of another error type that carries it *)
(* (the ? operator with From, or map_err with a variant constructor).      *)
Wrapped(kind, e) ==
    [ok |-> FALSE, err |-> [kind |-> kind, args |-> e.args, inner |-> e.kind]]
None == [some |-> FALSE]
Some(v) == [some |-> TRUE, val |-> v]

(* The unit value returned by a successful validation *)
Unit == <<>>

----------------------------------------------------------------------------
(* Byte helpers *)

Zeros(n) == [i \in 1..n |-> 0]

Fill(n, b) == [i \in 1..n |-> b]

RECURSIVE to_le_bytes(_, _)
to_le_bytes(n, k) ==
    IF k = 0 THEN <<>> ELSE <<n % 256>> \o to_le_bytes(n \div 256, k - 1)

RECURSIVE from_le_bytes(_)
from_le_bytes(bytes) ==
    IF bytes = <<>> THEN 0 ELSE Head(bytes) + 256 * from_le_bytes(Tail(bytes))

(* slice.split_at(mid): the two halves of a buffer *)
split_at(buffer, mid) ==
    <<SubSeq(buffer, 1, mid), SubSeq(buffer, mid + 1, Len(buffer))>>

----------------------------------------------------------------------------
(* RowId: row index and block height, 10 bytes, height first, little endian *)

RowId_size == ROW_ID_SIZE

RowId_new(index, block_height) ==
    IF block_height = 0
    THEN Err("ZeroBlockHeight", <<>>)
    ELSE Ok([index |-> index, block_height |-> block_height])

RowId_encode(row) ==
    to_le_bytes(row.block_height, 8) \o to_le_bytes(row.index, 2)

RowId_decode(buffer) ==
    IF Len(buffer) # ROW_ID_SIZE
    THEN Err("InvalidMultihashLength", <<Len(buffer)>>)
    ELSE LET parts == split_at(buffer, 8)
             block_height == from_le_bytes(parts[1])
             index == from_le_bytes(parts[2])
         IN  IF block_height = 0
             THEN Err("InvalidCid", <<>>)
             ELSE Ok([index |-> index, block_height |-> block_height])

----------------------------------------------------------------------------
(* Namespace: 29 raw bytes, a version byte followed by a 28 byte id.  A    *)
(* Namespace value is its raw bytes.                                       *)

(* Namespace::new_v0(id): version 0, the id left padded with zeros *)
Namespace_new_v0(id) == <<0>> \o Zeros(NS_SIZE - 1 - Len(id)) \o id

Namespace_as_bytes(namespace) == namespace

(* Namespace::from_raw: rejects a wrong length, an unsupported version, a  *)
(* version 0 id whose 18 leading bytes are not zero and a version 255 id   *)
(* that is not all 0xFF.                                                   *)
Namespace_from_raw(bytes) ==
    IF Len(bytes) # NS_SIZE
    THEN Err("InvalidNamespaceSize", <<>>)
    ELSE IF bytes[1] = 0
    THEN IF \A i \in 2..19 : bytes[i] = 0
         THEN Ok(bytes)
         ELSE Err("InvalidNamespaceV0", <<>>)
    ELSE IF bytes[1] = 255
    THEN IF \A i \in 2..NS_SIZE : bytes[i] = 255
         THEN Ok(bytes)
         ELSE Err("InvalidNamespaceV255", <<>>)
    ELSE Err("UnsupportedNamespaceVersion", <<bytes[1]>>)

----------------------------------------------------------------------------
(* NamespacedDataId *)

(* new with the height check off by one: height 1 is rejected too *)
NamespacedDataId_new_off_by_one(namespace, row_index, block_height) ==
    IF block_height <= 1
    THEN Err("ZeroBlockHeight", <<>>)
    ELSE LET row == RowId_new(row_index, block_height)
         IN  IF ~row.ok
             THEN row
             ELSE Ok([row |-> row.val, namespace |-> namespace])

NamespacedDataId_new(namespace, row_index, block_height) ==
    IF block_height = 0
    THEN Err("ZeroBlockHeight", <<>>)
    ELSE LET row == RowId_new(row_index, block_height)
         IN  IF ~row.ok
             THEN row
             ELSE Ok([row |-> row.val, namespace |-> namespace])

NamespacedDataId_size == RowId_size + NS_SIZE

NAMESPACED_DATA_ID_SIZE == NamespacedDataId_size

(* encode with the two fields written in the other order *)
NamespacedDataId_encode_namespace_first(id) ==
    Namespace_as_bytes(id.namespace) \o RowId_encode(id.row)

NamespacedDataId_encode(id) ==
    RowId_encode(id.row) \o Namespace_as_bytes(id.namespace)

(* decode that splits the buffer at the height instead of the row id *)
NamespacedDataId_decode_split_at_height(buffer) ==
    IF Len(buffer) # NAMESPACED_DATA_ID_SIZE
    THEN Err("InvalidMultihashLength", <<Len(buffer)>>)
    ELSE LET parts == split_at(buffer, 8)
             row == RowId_decode(parts[1])
             namespace == Namespace_from_raw(parts[2])
         IN  IF ~row.ok
             THEN row
             ELSE IF ~namespace.ok
             THEN Err("InvalidCid", <<>>)
             ELSE Ok([row |-> row.val, namespace |-> namespace.val])

NamespacedDataId_decode(buffer) ==
    IF Len(buffer) # NAMESPACED_DATA_ID_SIZE
    THEN Err("InvalidMultihashLength", <<Len(buffer)>>)
    ELSE LET parts == split_at(buffer, RowId_size)
             row == RowId_decode(parts[1])
             namespace == Namespace_from_raw(parts[2])
         IN  IF ~row.ok
             THEN row
             ELSE IF ~namespace.ok
             THEN Err("InvalidCid", <<>>)
             ELSE Ok([row |-> row.val, namespace |-> namespace.val])

----------------------------------------------------------------------------
(* Multihash and CidGeneric: the generic content identifier envelope *)

(* Multihash::<S>::wrap(code, digest): fails when the digest exceeds S *)
Multihash_wrap(code, digest, S) ==
    IF Len(digest) > S
    THEN Err("InvalidSize", <<Len(digest)>>)
    ELSE Ok([code |-> code, size |-> Len(digest), digest |-> digest])

CidGeneric_new_v1(codec, hash) ==
    [version |-> 1, codec |-> codec, hash |-> hash]

(* try_from that checks the digest length before the codec *)
NamespacedDataId_try_from_length_first(cid) ==
    LET codec == cid.codec
        hash == cid.hash
        size == hash.size
        code == hash.code
    IN  IF size # NAMESPACED_DATA_ID_SIZE
        THEN [res |-> Err("InvalidMultihashLength", <<size>>), calls |-> <<>>]
        ELSE IF codec # NAMESPACED_DATA_ID_CODEC
        THEN [res |-> Err("InvalidCidCodec", <<codec>>), calls |-> <<>>]
        ELSE IF code # NAMESPACED_DATA_ID_MULTIHASH_CODE
        THEN [res |-> Err("InvalidMultihashCode",
                          <<code, NAMESPACED_DATA_ID_MULTIHASH_CODE>>),
              calls |-> <<>>]
        ELSE [res |-> NamespacedDataId_decode(hash.digest),
              calls |-> <<"NamespacedDataId::decode">>]

(* try_from that checks the multihash code before the digest length *)
NamespacedDataId_try_from_code_first(cid) ==
    LET codec == cid.codec
        hash == cid.hash
        size == hash.size
        code == hash.code
    IN  IF codec # NAMESPACED_DATA_ID_CODEC
        THEN [res |-> Err("InvalidCidCodec", <<codec>>), calls |-> <<>>]
        ELSE IF code # NAMESPACED_DATA_ID_MULTIHASH_CODE
        THEN [res |-> Err("InvalidMultihashCode",
                          <<code, NAMESPACED_DATA_ID_MULTIHASH_CODE>>),
              calls |-> <<>>]
        ELSE IF size # NAMESPACED_DATA_ID_SIZE
        THEN [res |-> Err("InvalidMultihashLength", <<size>>), calls |-> <<>>]
        ELSE [res |-> NamespacedDataId_decode(hash.digest),
              calls |-> <<"NamespacedDataId::decode">>]

(* try_from that decodes the digest before it checks the multihash code *)
NamespacedDataId_try_from_decode_first(cid) ==
    LET codec == cid.codec
        hash == cid.hash
        size == hash.size
        code == hash.code
    IN  IF codec # NAMESPACED_DATA_ID_CODEC
        THEN [res |-> Err("InvalidCidCodec", <<codec>>), calls |-> <<>>]
        ELSE IF size # NAMESPACED_DATA_ID_SIZE
        THEN [res |-> Err("InvalidMultihashLength", <<size>>), calls |-> <<>>]
        ELSE LET id == NamespacedDataId_decode(hash.digest)
             IN  IF ~id.ok
                 THEN [res |-> id, calls |-> <<"NamespacedDataId::decode">>]
                 ELSE IF code # NAMESPACED_DATA_ID_MULTIHASH_CODE
                 THEN [res |-> Err("InvalidMultihashCode",
                                   <<code, NAMESPACED_DATA_ID_MULTIHASH_CODE>>),
                       calls |-> <<"NamespacedDataId::decode">>]
                 ELSE [res |-> id, calls |-> <<"NamespacedDataId::decode">>]

(* impl TryFrom<CidGeneric<S>> for NamespacedDataId *)
NamespacedDataId_try_from(cid) ==
    LET codec == cid.codec
        hash == cid.hash
        size == hash.size
        code == hash.code
    IN  IF codec # NAMESPACED_DATA_ID_CODEC
        THEN [res |-> Err("InvalidCidCodec", <<codec>>), calls |-> <<>>]
        ELSE IF size # NAMESPACED_DATA_ID_SIZE
        THEN [res |-> Err("InvalidMultihashLength", <<size>>), calls |-> <<>>]
        ELSE IF code # NAMESPACED_DATA_ID_MULTIHASH_CODE
        THEN [res |-> Err("InvalidMultihashCode",
                          <<code, NAMESPACED_DATA_ID_MULTIHASH_CODE>>),
              calls |-> <<>>]
        ELSE [res |-> NamespacedDataId_decode(hash.digest),
              calls |-> <<"NamespacedDataId::decode">>]

(* impl TryFrom<NamespacedDataId> for CidGeneric<NAMESPACED_DATA_ID_SIZE>; *)
(* the unwrap of a failed wrap is a panic.                                 *)
CidGeneric_try_from(namespaced_data_id) ==
    LET bytes == NamespacedDataId_encode(namespaced_data_id)
        mh == Multihash_wrap(NAMESPACED_DATA_ID_MULTIHASH_CODE, bytes,
                             NAMESPACED_DATA_ID_SIZE)
    IN  IF ~mh.ok
        THEN Err("Panic", <<>>)
        ELSE Ok(CidGeneric_new_v1(NAMESPACED_DATA_ID_CODEC, mh.val))

----------------------------------------------------------------------------
(* Collaborators of the envelope: the header's row roots and the proof *)

(* DataAvailabilityHeader::row_root(row): a header is its row roots *)
DataAvailabilityHeader_row_root(dah, row) ==
    IF row < Len(dah) THEN Some(dah[row + 1]) ELSE None

(* NamespaceProof::verify_complete_namespace: a proof is the one (root,    *)
(* leaves, namespace) statement it proves; the leaves are order sensitive. *)
NamespaceProof_verify_complete_namespace(proof, root, shares, namespace) ==
    IF proof.root = root /\ proof.shares = shares /\ proof.namespace = namespace
    THEN Ok(Unit)
    ELSE Err("RangeProofError", <<>>)

(* TryFrom<RawProof> for NamespaceProof: a raw proof converts or does not *)
NamespaceProof_try_from(raw_proof) ==
    IF raw_proof.convertible
    THEN Ok(raw_proof.proof)
    ELSE Err("InvalidProof", <<>>)

(* From<NamespaceProof> for RawProof *)
RawProof_from(proof) == [convertible |-> TRUE, proof |-> proof]

----------------------------------------------------------------------------
(* NamespacedData *)

(* validate without the check for an envelope without shares *)
NamespacedData_validate_no_empty_check(self, dah) ==
    LET namespace == self.namespaced_data_id.namespace
        row == self.namespaced_data_id.row.index
        root == DataAvailabilityHeader_row_root(dah, row)
    IN  IF ~root.some
        THEN [res |-> Err("EdsIndexOutOfRange", <<row>>),
              calls |-> <<<<"row_root", row>>>>]
        ELSE LET v == NamespaceProof_verify_complete_namespace(
                          self.proof, root.val, self.shares, namespace)
             IN  [res |-> IF v.ok THEN v
                          ELSE Wrapped("RangeProofError", v.err),
                  calls |-> << <<"row_root", row>>,
                               <<"verify_complete_namespace", root.val,
                                 self.shares, namespace>> >>]

(* validate that verifies against a default root when the header has no    *)
(* root for the row                                                        *)
NamespacedData_validate_default_root(self, dah) ==
    IF self.shares = <<>>
    THEN [res |-> Err("WrongProofType", <<>>), calls |-> <<>>]
    ELSE LET namespace == self.namespaced_data_id.namespace
             row == self.namespaced_data_id.row.index
             found == DataAvailabilityHeader_row_root(dah, row)
             root == IF found.some THEN found.val ELSE 0
             v == NamespaceProof_verify_complete_namespace(
                      self.proof, root, self.shares, namespace)
         IN  [res |-> IF v.ok THEN v ELSE Wrapped("RangeProofError", v.err),
              calls |-> << <<"row_root", row>>,
                           <<"verify_complete_namespace", root,
                             self.shares, namespace>> >>]

NamespacedData_validate(self, dah) ==
    IF self.shares = <<>>
    THEN [res |-> Err("WrongProofType", <<>>), calls |-> <<>>]
    ELSE LET namespace == self.namespaced_data_id.namespace
             row == self.namespaced_data_id.row.index
             root == DataAvailabilityHeader_row_root(dah, row)
         IN  IF ~root.some
             THEN [res |-> Err("EdsIndexOutOfRange", <<row>>),
                   calls |-> <<<<"row_root", row>>>>]
             ELSE LET v == NamespaceProof_verify_complete_namespace(
                               self.proof, root.val, self.shares, namespace)
                  IN  [res |-> IF v.ok THEN v
                               ELSE Wrapped("RangeProofError", v.err),
                       calls |-> << <<"row_root", row>>,
                                    <<"verify_complete_namespace", root.val,
                                      self.shares, namespace>> >>]

(* try_from that decodes the identifier before it looks at the proof *)
NamespacedData_try_from_id_first(namespaced_data) ==
    LET namespaced_data_id == NamespacedDataId_decode(namespaced_data.data_id)
    IN  IF ~namespaced_data_id.ok
        THEN [res |-> Wrapped("CidError", namespaced_data_id.err),
              calls |-> <<"NamespacedDataId::decode">>]
        ELSE IF ~namespaced_data.data_proof.some
        THEN [res |-> Err("MissingProof", <<>>),
              calls |-> <<"NamespacedDataId::decode">>]
        ELSE LET converted ==
                     NamespaceProof_try_from(namespaced_data.data_proof.val)
             IN  IF ~converted.ok
                 THEN [res |-> converted,
                       calls |-> <<"NamespacedDataId::decode",
                                   "NamespaceProof::try_from">>]
                 ELSE [res |-> Ok([namespaced_data_id |-> namespaced_data_id.val,
                                   shares |-> namespaced_data.data_shares,
                                   proof |-> converted.val]),
                       calls |-> <<"NamespacedDataId::decode",
                                   "NamespaceProof::try_from">>]

(* try_from that rejects a message without shares *)
NamespacedData_try_from_rejects_empty(namespaced_data) ==
    IF ~namespaced_data.data_proof.some
    THEN [res |-> Err("MissingProof", <<>>), calls |-> <<>>]
    ELSE IF namespaced_data.data_shares = <<>>
    THEN [res |-> Err("WrongProofType", <<>>), calls |-> <<>>]
    ELSE LET proof == namespaced_data.data_proof.val
             namespaced_data_id == NamespacedDataId_decode(namespaced_data.data_id)
             converted == NamespaceProof_try_from(proof)
         IN  IF ~namespaced_data_id.ok
             THEN [res |-> Wrapped("CidError", namespaced_data_id.err),
                   calls |-> <<"NamespacedDataId::decode">>]
             ELSE IF ~converted.ok
             THEN [res |-> converted,
                   calls |-> <<"NamespacedDataId::decode",
                               "NamespaceProof::try_from">>]
             ELSE [res |-> Ok([namespaced_data_id |-> namespaced_data_id.val,
                               shares |-> namespaced_data.data_shares,
                               proof |-> converted.val]),
                   calls |-> <<"NamespacedDataId::decode",
                               "NamespaceProof::try_from">>]

(* impl TryFrom<RawNamespacedData> for NamespacedData *)
NamespacedData_try_from(namespaced_data) ==
    IF ~namespaced_data.data_proof.some
    THEN [res |-> Err("MissingProof", <<>>), calls |-> <<>>]
    ELSE LET proof == namespaced_data.data_proof.val
             namespaced_data_id == NamespacedDataId_decode(namespaced_data.data_id)
             converted == NamespaceProof_try_from(proof)
         IN  IF ~namespaced_data_id.ok
             THEN [res |-> Wrapped("CidError", namespaced_data_id.err),
                   calls |-> <<"NamespacedDataId::decode">>]
             ELSE IF ~converted.ok
             THEN [res |-> converted,
                   calls |-> <<"NamespacedDataId::decode",
                               "NamespaceProof::try_from">>]
             ELSE [res |-> Ok([namespaced_data_id |-> namespaced_data_id.val,
                               shares |-> namespaced_data.data_shares,
                               proof |-> converted.val]),
                   calls |-> <<"NamespacedDataId::decode",
                               "NamespaceProof::try_from">>]

(* impl From<NamespacedData> for RawNamespacedData *)
RawNamespacedData_from(namespaced_data) ==
    [data_id |-> NamespacedDataId_encode(namespaced_data.namespaced_data_id),
     data_shares |-> [i \in 1..Len(namespaced_data.shares) |->
                          namespaced_data.shares[i]],
     data_proof |-> Some(RawProof_from(namespaced_data.proof))]

----------------------------------------------------------------------------
(* Inputs *)

(* The all 0xFF namespace of version 255 *)
MaxNamespace == Fill(NS_SIZE, 255)

Namespaces ==
    {Namespace_new_v0(<<k>>) : k \in 0..MaxNsId}
        \cup {Namespace_new_v0(<<1, 0>>), MaxNamespace}

Heights == (0..MaxHeight) \cup {64, 100, 16909060}

RowIndices == (0..MaxRowIndex) \cup {5, 7, 65535}

(* Identifiers that new accepts, and their encodings *)
Ids ==
    {[row |-> [index |-> r, block_height |-> h], namespace |-> ns] :
        r \in RowIndices, h \in Heights \ {0}, ns \in Namespaces}

(* Buffers that are not the encoding of an identifier: zero height, an     *)
(* unsupported namespace version, a version 0 namespace with a non zero    *)
(* prefix, and wrong lengths.                                              *)
MalformedDigests ==
    {Zeros(NAMESPACED_DATA_ID_SIZE),
     Zeros(8) \o <<7, 0>> \o Namespace_new_v0(<<1>>),
     <<64>> \o Zeros(7) \o <<7, 0>> \o <<1>> \o Zeros(NS_SIZE - 1),
     <<64>> \o Zeros(7) \o <<7, 0>> \o <<0, 9>> \o Zeros(NS_SIZE - 2),
     <<>>,
     Zeros(ROW_ID_SIZE),
     <<1>> \o Zeros(NAMESPACED_DATA_ID_SIZE - 2),
     <<1>> \o Zeros(NAMESPACED_DATA_ID_SIZE)}

Digests == {NamespacedDataId_encode(id) : id \in Ids} \cup MalformedDigests

Codecs == {NAMESPACED_DATA_ID_CODEC, 4321, NAMESPACED_DATA_ID_MULTIHASH_CODE}

HashCodes == {NAMESPACED_DATA_ID_MULTIHASH_CODE, 888, NAMESPACED_DATA_ID_CODEC}

(* The digest capacity S of the content identifiers handed in *)
CidCapacity == 64

(* Shares are opaque byte buffers *)
ShareValues == {<<1>>, <<2, 2>>}

RECURSIVE SeqsUpTo(_, _)
SeqsUpTo(S, n) ==
    IF n = 0 THEN {<<>>}
    ELSE LET shorter == SeqsUpTo(S, n - 1)
         IN  shorter \cup {Append(q, x) : q \in {t \in shorter : Len(t) = n - 1},
                                          x \in S}

ShareSeqs == SeqsUpTo(ShareValues, MaxShares)

Roots == {11, 12}

Headers == SeqsUpTo(Roots, MaxRows)

WireNamespaces == {Namespace_new_v0(<<1>>), MaxNamespace}

Proofs ==
    {[root |-> r, shares |-> sh, namespace |-> ns] :
        r \in Roots, sh \in ShareSeqs, ns \in WireNamespaces}

(* Raw proofs: every proof in its wire form, and one that does not convert *)
RawProofs ==
    {RawProof_from(p) : p \in Proofs}
        \cup {[convertible |-> FALSE,
               proof |-> [root |-> 11, shares |-> <<>>,
                          namespace |-> MaxNamespace]]}

WireIds ==
    {NamespacedDataId_encode(
        [row |-> [index |-> r, block_height |-> 1], namespace |-> ns]) :
        r \in 0..MaxRowIndex, ns \in WireNamespaces} \cup MalformedDigests

RawMessages ==
    {[data_id |-> d, data_shares |-> sh, data_proof |-> p] :
        d \in WireIds, sh \in ShareSeqs,
        p \in {None} \cup {Some(rp) : rp \in RawProofs}}

----------------------------------------------------------------------------
(* State: val is the value the caller holds (none, an identifier, a        *)
(* content identifier, a wire message or an envelope), src the identifier  *)
(* a held content identifier was converted from, last the last call with   *)
(* its argument, its result and the calls it made.                         *)

NoVal == [t |-> "none", v |-> <<>>]

Held(t, res) == IF res.ok THEN [t |-> t, v |-> res.val] ELSE NoVal

Init ==
    /\ val = NoVal
    /\ src = None
    /\ last = [op |-> "init", arg |-> <<>>, res |-> Ok(Unit), calls |-> <<>>]

(* The caller holds nothing and starts a new sequence of calls *)
Idle == val.t = "none" /\ last.op \in {"init", "drop"}

(* The held value and the last result go out of scope *)
Drop ==
    /\ ~Idle
    /\ val' = NoVal
    /\ src' = None
    /\ last' = [op |-> "drop", arg |-> <<>>, res |-> Ok(Unit), calls |-> <<>>]

(* NamespacedDataId::new(namespace, row_index, block_height) *)
New ==
    /\ Idle
    /\ \E namespace \in Namespaces, row_index \in RowIndices,
          block_height \in Heights :
          LET res == NamespacedDataId_new(namespace, row_index, block_height)
          IN  /\ val' = Held("id", res)
              /\ src' = None
              /\ last' = [op |-> "new",
                          arg |-> [namespace |-> namespace,
                                   row_index |-> row_index,
                                   block_height |-> block_height],
                          res |-> res, calls |-> <<>>]

(* CidGeneric::try_from(id) on the held identifier *)
IdToCid ==
    /\ val.t = "id"
    /\ LET res == CidGeneric_try_from(val.v)
       IN  /\ val' = Held("cid", res)
           /\ src' = Some(val.v)
           /\ last' = [op |-> "id_to_cid", arg |-> val.v, res |-> res,
                       calls |-> <<>>]

(* A content identifier received from elsewhere:                           *)
(* CidGeneric::new_v1(codec, Multihash::wrap(code, digest))                *)
ReceiveCid ==
    /\ Idle
    /\ \E codec \in Codecs, code \in HashCodes, digest \in Digests :
          LET mh == Multihash_wrap(code, digest, CidCapacity)
              res == IF mh.ok THEN Ok(CidGeneric_new_v1(codec, mh.val)) ELSE mh
          IN  /\ val' = Held("cid", res)
              /\ src' = None
              /\ last' = [op |-> "receive_cid", arg |-> digest, res |-> res,
                          calls |-> <<>>]

(* NamespacedDataId::try_from(cid) on the held content identifier *)
CidToId ==
    /\ val.t = "cid"
    /\ LET out == NamespacedDataId_try_from(val.v)
       IN  /\ val' = Held("id", out.res)
           /\ UNCHANGED src
           /\ last' = [op |-> "cid_to_id", arg |-> val.v, res |-> out.res,
                       calls |-> out.calls]

(* A wire message received from elsewhere *)
ReceiveRaw ==
    /\ Idle
    /\ \E raw \in RawMessages :
          /\ val' = [t |-> "raw", v |-> raw]
          /\ src' = None
          /\ last' = [op |-> "receive_raw", arg |-> raw, res |-> Ok(Unit),
                      calls |-> <<>>]

(* NamespacedData::try_from(raw) on the held wire message *)
RawToData ==
    /\ val.t = "raw"
    /\ LET out == NamespacedData_try_from(val.v)
       IN  /\ val' = Held("data", out.res)
           /\ src' = None
           /\ last' = [op |-> "raw_to_data", arg |-> val.v, res |-> out.res,
                       calls |-> out.calls]

(* RawNamespacedData::from(data) on the held envelope *)
DataToRaw ==
    /\ val.t = "data"
    /\ LET raw == RawNamespacedData_from(val.v)
       IN  /\ val' = [t |-> "raw", v |-> raw]
           /\ src' = None
           /\ last' = [op |-> "data_to_raw", arg |-> val.v, res |-> Ok(raw),
                       calls |-> <<>>]

(* data.validate(dah) on the held envelope, which it borrows *)
Validate(dah) ==
    /\ val.t = "data"
    /\ LET out == NamespacedData_validate(val.v, dah)
       IN  /\ UNCHANGED val
           /\ src' = None
           /\ last' = [op |-> "validate", arg |-> [data |-> val.v, dah |-> dah],
                       res |-> out.res, calls |-> out.calls]

Next ==
    \/ New
    \/ IdToCid
    \/ ReceiveCid
    \/ CidToId
    \/ ReceiveRaw
    \/ RawToData
    \/ DataToRaw
    \/ \E dah \in Headers : Validate(dah)
    \/ Drop

Spec == Init /\ [][Next]_vars

----------------------------------------------------------------------------
(* Properties *)

VERIFY == "verify_complete_namespace"

(* The identifier and the digest of the from_buffer test *)
ExampleId ==
    [row |-> [index |-> 7, block_height |-> 64],
     namespace |-> Namespace_new_v0(<<1>>)]

ExampleDigest == <<64, 0, 0, 0, 0, 0, 0, 0, 7, 0>> \o Zeros(28) \o <<1>>

(* C1: an identifier converted to a content identifier converts back to an *)
(* equal identifier, and the content identifier produced carries the       *)
(* reserved codec, multihash code 0x7821 and a digest of length 39.        *)
C1_RoundTrip ==
    /\ last.op = "id_to_cid" =>
           /\ last.res.ok
           /\ last.res.val.hash.code = 30753
           /\ last.res.val.hash.size = 39
           /\ Len(last.res.val.hash.digest) = 39
    /\ (last.op = "cid_to_id" /\ src.some) =>
           /\ last.res.ok
           /\ last.res.val = src.val
           /\ val = [t |-> "id", v |-> src.val]

C1_Witness ==
    /\ last.op = "cid_to_id"
    /\ src = Some([row |-> [index |-> 5, block_height |-> 100],
                   namespace |-> Namespace_new_v0(<<0, 1>>)])
    /\ last.res.ok
    /\ last.res.val.row.block_height = 100

(* C2: a content identifier whose codec is not 0x7820 is rejected with     *)
(* InvalidCidCodec carrying the observed codec, whatever its multihash     *)
(* code, digest length and digest are.                                     *)
C2_CodecMismatch ==
    (last.op = "cid_to_id" /\ last.arg.codec # 30752) =>
        /\ ~last.res.ok
        /\ last.res.err.kind = "InvalidCidCodec"
        /\ last.res.err.args = <<last.arg.codec>>
        /\ last.calls = <<>>

C2_Witness ==
    /\ last.op = "cid_to_id"
    /\ last.arg.codec = 4321
    /\ last.arg.hash.code = 888
    /\ last.arg.hash.size = 40
    /\ last.res.err.kind = "InvalidCidCodec"

(* C3: with the reserved codec and a 39 byte digest, a multihash code      *)
(* other than 0x7821 is rejected with InvalidMultihashCode carrying the    *)
(* observed and the expected code, and the digest is not decoded.          *)
C3_HashCodeMismatch ==
    (/\ last.op = "cid_to_id"
     /\ last.arg.codec = 30752
     /\ last.arg.hash.size = 39
     /\ last.arg.hash.code # 30753) =>
        /\ ~last.res.ok
        /\ last.res.err.kind = "InvalidMultihashCode"
        /\ last.res.err.args = <<last.arg.hash.code, 30753>>
        /\ last.calls = <<>>

C3_Witness ==
    /\ last.op = "cid_to_id"
    /\ last.arg.codec = 30752
    /\ last.arg.hash.code = 888
    /\ last.arg.hash.digest = Zeros(39)
    /\ last.res.err.kind = "InvalidMultihashCode"

(* C4: validate on an envelope without shares fails with the error of the  *)
(* empty proof target (Error::WrongProofType in the code), whatever the    *)
(* proof, the row index and the header are, and neither looks up a row     *)
(* root nor verifies the proof.                                            *)
C4_EmptyShares ==
    (last.op = "validate" /\ Len(last.arg.data.shares) = 0) =>
        /\ ~last.res.ok
        /\ last.res.err.kind = "WrongProofType"
        /\ last.calls = <<>>

(* the proof proves the empty leaf set under the root of a row in range *)
C4_Witness ==
    /\ last.op = "validate"
    /\ last.arg.data.shares = <<>>
    /\ last.arg.data.proof.shares = <<>>
    /\ last.arg.data.namespaced_data_id.row.index < Len(last.arg.dah)
    /\ last.arg.data.proof.root =
           last.arg.dah[last.arg.data.namespaced_data_id.row.index + 1]
    /\ last.arg.data.proof.namespace = last.arg.data.namespaced_data_id.namespace
    /\ ~last.res.ok

(* C5: new with block height 0 fails with ZeroBlockHeight and leaves no    *)
(* value, for every namespace and row index; with a block height above 0   *)
(* it returns the identifier of its arguments.                             *)
C5_ZeroBlockHeight ==
    last.op = "new" =>
        /\ last.arg.block_height = 0 =>
               /\ ~last.res.ok
               /\ last.res.err.kind = "ZeroBlockHeight"
               /\ val.t = "none"
        /\ last.arg.block_height > 0 =>
               /\ last.res.ok
               /\ last.res.val.row.index = last.arg.row_index
               /\ last.res.val.row.block_height = last.arg.block_height
               /\ last.res.val.namespace = last.arg.namespace
               /\ val = [t |-> "id", v |-> last.res.val]

C5_Witness ==
    /\ last.op = "new"
    /\ last.arg.block_height = 0
    /\ last.arg.row_index = 65535
    /\ last.arg.namespace = MaxNamespace
    /\ ~last.res.ok

(* C6: the encoding of an identifier is 39 bytes: the block height in 8    *)
(* bytes little endian, the row index in 2 bytes little endian, then the   *)
(* 29 namespace bytes; the digest of the from_buffer test decodes to block *)
(* height 64, row index 7 and namespace 1.                                 *)
C6_Layout ==
    /\ last.op = "id_to_cid" =>
           LET d == last.res.val.hash.digest
               h == last.arg.row.block_height
               r == last.arg.row.index
           IN  /\ Len(d) = 39
               /\ d[1] = h % 256
               /\ d[2] = (h \div 256) % 256
               /\ d[3] = (h \div 65536) % 256
               /\ d[4] = (h \div 16777216) % 256
               /\ \A i \in 5..8 : d[i] = 0
               /\ d[9] = r % 256
               /\ d[10] = r \div 256
               /\ \A i \in 1..29 : d[10 + i] = last.arg.namespace[i]
    /\ (/\ last.op = "cid_to_id"
        /\ last.arg.codec = 30752
        /\ last.arg.hash.code = 30753
        /\ last.arg.hash.digest = ExampleDigest) =>
           /\ last.res.ok
           /\ last.res.val.row.block_height = 64
           /\ last.res.val.row.index = 7
           /\ last.res.val.namespace = Zeros(28) \o <<1>>

C6_Witness ==
    /\ last.op = "id_to_cid"
    /\ last.arg.row.block_height = 16909060
    /\ last.arg.row.index = 65535
    /\ last.arg.namespace = Namespace_new_v0(<<1, 0>>)
    /\ SubSeq(last.res.val.hash.digest, 1, 10) = <<4, 3, 2, 1, 0, 0, 0, 0, 255, 255>>

(* C7: with the reserved codec, a digest length other than 39 is rejected  *)
(* with InvalidMultihashLength carrying the length, also when the          *)
(* multihash code is wrong too; the digest is decoded only when codec,     *)
(* length and code all passed.                                             *)
C7_CheckOrder ==
    last.op = "cid_to_id" =>
        /\ (last.arg.codec = 30752 /\ last.arg.hash.size # 39) =>
               /\ ~last.res.ok
               /\ last.res.err.kind = "InvalidMultihashLength"
               /\ last.res.err.args = <<last.arg.hash.size>>
               /\ last.calls = <<>>
        /\ last.calls # <<>> =>
               /\ last.arg.codec = 30752
               /\ last.arg.hash.size = 39
               /\ last.arg.hash.code = 30753

C7_Witness ==
    /\ last.op = "cid_to_id"
    /\ last.arg.codec = 30752
    /\ last.arg.hash.size = 38
    /\ last.arg.hash.code = 888
    /\ last.res.err.kind = "InvalidMultihashLength"

(* C8: validate on an envelope with shares whose row index the header     *)
(* does not cover fails with the out of range error (EdsIndexOutOfRange)   *)
(* carrying the row index and never verifies the proof; the proof is       *)
(* verified only after the row root was found, against that root, the      *)
(* shares in order and the namespace of the identifier.                    *)
C8_RowRootThenVerify ==
    last.op = "validate" =>
        LET data == last.arg.data
            dah == last.arg.dah
            row == data.namespaced_data_id.row.index
        IN  /\ (data.shares # <<>> /\ row >= Len(dah)) =>
                   /\ ~last.res.ok
                   /\ last.res.err.kind = "EdsIndexOutOfRange"
                   /\ last.res.err.args = <<row>>
                   /\ \A i \in 1..Len(last.calls) : last.calls[i][1] # VERIFY
            /\ \A i \in 1..Len(last.calls) :
                   last.calls[i][1] = VERIFY =>
                       /\ i = 2
                       /\ last.calls[1] = <<"row_root", row>>
                       /\ row < Len(dah)
                       /\ last.calls[i] =
                              <<VERIFY, dah[row + 1], data.shares,
                                data.namespaced_data_id.namespace>>

C8_Witness ==
    /\ last.op = "validate"
    /\ last.arg.data.shares = <<<<2, 2>>, <<1>>>>
    /\ last.arg.data.namespaced_data_id.row.index = Len(last.arg.dah)
    /\ Len(last.arg.dah) > 0
    /\ last.res.err.kind = "EdsIndexOutOfRange"

(* C9: decoding a wire message without a proof fails with MissingProof,    *)
(* whatever its identifier bytes and shares are; the identifier bytes are  *)
(* decoded only when the proof is present.                                 *)
C9_MissingProof ==
    last.op = "raw_to_data" =>
        /\ ~last.arg.data_proof.some =>
               /\ ~last.res.ok
               /\ last.res.err.kind = "MissingProof"
               /\ last.calls = <<>>
        /\ last.calls # <<>> => last.arg.data_proof.some

C9_Witness ==
    /\ last.op = "raw_to_data"
    /\ ~last.arg.data_proof.some
    /\ Len(last.arg.data_id) = 40
    /\ last.arg.data_shares = <<>>
    /\ last.res.err.kind = "MissingProof"

(* C10: a wire message with a well formed identifier and a convertible     *)
(* proof decodes into an envelope that carries its shares unchanged and in *)
(* order, also when there are none; the envelope without shares fails      *)
(* when it is validated.                                                   *)
C10_EmptySharesDecode ==
    /\ (/\ last.op = "raw_to_data"
        /\ last.arg.data_proof.some
        /\ last.arg.data_id \notin MalformedDigests) =>
           (last.arg.data_proof.val.convertible =>
               /\ last.res.ok
               /\ last.res.val.shares = last.arg.data_shares
               /\ val = [t |-> "data", v |-> last.res.val])
    /\ (last.op = "validate" /\ val.v.shares = <<>>) => ~last.res.ok

C10_Witness ==
    /\ last.op = "validate"
    /\ val.t = "data"
    /\ val.v.shares = <<>>
    /\ ~last.res.ok

====
